---- MODULE Spec2Model ----
(***************************************************************************)
(* RetroCam (src/src/App.tsx): the App component as a state machine.       *)
(*                                                                         *)
(* State is the component's useState cells, the two refs, the closures the *)
(* facing-mode effect keeps, the getUserMedia promises in flight, the      *)
(* camera tracks the platform has granted, and the two cosmetic timers.    *)
(* Every handler runs to completion and React re-renders before the next   *)
(* event, so a handler's closure sees the state of the render it was made  *)
(* in; the only closures that outlive a render are the effect's cleanup    *)
(* and the suspended startCamera calls, and both are modelled explicitly.  *)
(***************************************************************************)
EXTENDS Integers, Sequences, FiniteSets, TLC

(* ---- bounds of the model ---- *)
\* acquisitions (getUserMedia calls) issued in one run, the mount one included
MaxRequests == 2
\* shutter presses that reach the canvas in one run of Spec
MaxShots == 1
\* deletions in one run of Spec
MaxDeletes == 1
\* the budgets of the whole-roll runs with the camera and the dial (SpecRoll):
\* acquisitions, and the exposures before which the switch, the dial and the
\* settling of acquisitions happen
RollRequests == 2
RollSetupShots == 1
\* the budgets of the whole-roll runs with the gallery (SpecFilm): deletions,
\* and the number of newest gallery items that are opened
FilmDeletes == 1
FilmItems == 2
\* the filter dial is only turned before this many exposures have been made
MaxDialShots == 1

(* ---- program constants ---- *)
InitialFilm == 24
FilmCap == 24
FlashMs == 150
CapturingMs == 300

NoStream == 0

FilterNames == {"none", "vintage", "sepia", "polaroid", "noir", "faded"}

filters ==
  << [name |-> "none",     label |-> "Natural",  css |-> "none"],
     [name |-> "vintage",  label |-> "70s Film", css |-> "sepia(0.3) contrast(1.1) saturate(1.3) brightness(1.05)"],
     [name |-> "sepia",    label |-> "Sepia",    css |-> "sepia(0.8) contrast(1.1)"],
     [name |-> "polaroid", label |-> "Polaroid", css |-> "contrast(1.1) brightness(1.1) saturate(1.2)"],
     [name |-> "noir",     label |-> "Noir",     css |-> "grayscale(1) contrast(1.3) brightness(0.9)"],
     [name |-> "faded",    label |-> "Faded",    css |-> "contrast(0.9) saturate(0.8) brightness(1.1)"] >>

VARIABLES
  stream,          \* useState: the MediaStream held (NoStream = null), by request number
  currentFilter,   \* useState
  photos,          \* useState: the gallery, a sequence of Photo
  isCapturing,     \* useState
  showGallery,     \* useState
  selectedPhoto,   \* useState: {} = null, {p} = the photo shown in the detail modal
  facingMode,      \* useState
  flashActive,     \* useState
  filmCount,       \* useState
  isLoading,       \* useState
  srcObject,       \* videoRef.current.srcObject (NoStream when unset or no <video>)
  mounted,         \* the component is mounted
  effectStream,    \* `stream` as closed over by the pending effect cleanup
  pending,         \* getUserMedia promises not yet settled (request numbers)
  granted,         \* streams the platform has granted so far
  live,            \* granted streams whose tracks have not been stopped
  nextReq,         \* number of getUserMedia calls issued
  flashTimer,      \* the 150 ms timeout is pending
  capturingTimer,  \* the 300 ms timeout is pending
  now              \* Date.now(), in ms since the component was constructed

vars == << stream, currentFilter, photos, isCapturing, showGallery, selectedPhoto,
           facingMode, flashActive, filmCount, isLoading, srcObject, mounted,
           effectStream, pending, granted, live, nextReq, flashTimer,
           capturingTimer, now >>

uiVars == << currentFilter, photos, isCapturing, showGallery, selectedPhoto,
             flashActive, filmCount, flashTimer, capturingTimer, now >>

cameraVars == << stream, facingMode, isLoading, srcObject, effectStream,
                 pending, granted, live, nextReq >>

(* ---- pure helpers ---- *)

Min(a, b) == IF a < b THEN a ELSE b

Digit(d) == <<"0", "1", "2", "3", "4", "5", "6", "7", "8", "9">>[d + 1]

RECURSIVE toString(_)
\* Number.prototype.toString(): the decimal digits of a non-negative integer
toString(n) == IF n < 10 THEN << Digit(n) >>
               ELSE Append(toString(n \div 10), Digit(n % 10))

\* filters.find(f => f.name === name)?.css || 'none'
FilterCss(name) ==
  LET hits == { i \in 1..Len(filters) : filters[i].name = name }
  IN  IF hits = {} THEN "none"
      ELSE filters[CHOOSE i \in hits : \A j \in hits : i <= j].css

\* stream.getTracks().forEach(track => track.stop()) under `if (stream)`
StopTracks(liveSet, s) == IF s # NoStream THEN liveSet \ {s} ELSE liveSet

\* prev => prev === 'user' ? 'environment' : 'user'
ToggleFacing(prev) == IF prev = "user" THEN "environment" ELSE "user"

\* the <video> element is rendered only while isLoading is false
VideoRefSet == mounted /\ ~isLoading

\* the <canvas> element is always rendered
CanvasRefSet == mounted

OutOfFilm_OffByOne == filmCount < 0

\* filmCount <= 0, as tested by capturePhoto and by the shutter's disabled prop
OutOfFilm == filmCount <= 0

ShutterDisabled_NoCapturing == OutOfFilm \/ isLoading

\* disabled={isCapturing || filmCount <= 0 || isLoading}
ShutterDisabled == isCapturing \/ OutOfFilm \/ isLoading

\* if (!videoRef.current || !canvasRef.current || filmCount <= 0) return;
CaptureGuardFails == ~VideoRefSet \/ ~CanvasRefSet \/ OutOfFilm

\* className={`viewfinder-video ${facingMode === 'user' ? 'mirrored' : ''}`}
PreviewMirrored == facingMode = "user"

DataUrl_NeverMirrored == [ source   |-> srcObject,
                           css      |-> FilterCss(currentFilter),
                           mirrored |-> FALSE ]

\* what ctx.drawImage / canvas.toDataURL put into the JPEG
DataUrl == [ source   |-> srcObject,
             css      |-> FilterCss(currentFilter),
             mirrored |-> (facingMode = "user") ]

NewPhoto_StaleFilter == [ id        |-> toString(now),
                          dataUrl   |-> DataUrl,
                          filter    |-> "vintage",
                          timestamp |-> now ]

NewPhoto_CounterId == [ id        |-> toString(filmCount),
                        dataUrl   |-> DataUrl,
                        filter    |-> currentFilter,
                        timestamp |-> now ]

NewPhoto == [ id        |-> toString(now),
              dataUrl   |-> DataUrl,
              filter    |-> currentFilter,
              timestamp |-> now ]

PrependPhoto_Appended(prev, p) == prev \o << p >>

\* prev => [newPhoto, ...prev]
PrependPhoto(prev, p) == << p >> \o prev

DecFilm_Forgotten(prev) == prev

\* prev => prev - 1
DecFilm(prev) == prev - 1

RemovePhoto_Newest(prev, photoId) == Tail(prev)

\* prev => prev.filter(p => p.id !== photoId)
RemovePhoto(prev, photoId) == SelectSeq(prev, LAMBDA p : p.id # photoId)

RestoreFilm_Forgotten(prev) == prev

RestoreFilm_Two(prev) == Min(prev + 2, FilmCap)

\* prev => Math.min(prev + 1, 24)
RestoreFilm(prev) == Min(prev + 1, FilmCap)

\* exposures that reached the gallery so far: one per elapsed capturing window
PhotosTaken == (now \div CapturingMs) + (IF capturingTimer THEN 1 ELSE 0)

Deleted == PhotosTaken - Len(photos)

(* ---- initial state: first render committed and the mount effect run ---- *)

Init ==
  /\ stream = NoStream
  /\ currentFilter = "vintage"
  /\ photos = << >>
  /\ isCapturing = FALSE
  /\ showGallery = FALSE
  /\ selectedPhoto = {}
  /\ facingMode = "environment"
  /\ flashActive = FALSE
  /\ filmCount = InitialFilm
  /\ isLoading = TRUE
  /\ srcObject = NoStream
  /\ mounted = TRUE
  /\ effectStream = NoStream
  /\ pending = {1}
  /\ granted = {}
  /\ live = {}
  /\ nextReq = 1
  /\ flashTimer = FALSE
  /\ capturingTimer = FALSE
  /\ now = 0

(* ---- camera acquisition ---- *)

\* switchCamera, the re-render, the old effect's cleanup, then the new effect's
\* startCamera() up to its await
switchCamera ==
  /\ mounted
  /\ facingMode' = ToggleFacing(facingMode)
  /\ live' = StopTracks(StopTracks(live, effectStream), stream)
  /\ effectStream' = stream
  /\ isLoading' = TRUE
  /\ srcObject' = NoStream
  /\ nextReq' = nextReq + 1
  /\ pending' = pending \cup {nextReq + 1}
  /\ UNCHANGED << stream, granted >>
  /\ UNCHANGED uiVars
  /\ UNCHANGED mounted

\* getUserMedia resolves: the rest of startCamera's try block and its finally
getUserMediaResolve(r) ==
  /\ r \in pending
  /\ pending' = pending \ {r}
  /\ granted' = granted \cup {r}
  /\ live' = live \cup {r}
  /\ IF mounted
       THEN /\ stream' = r
            /\ srcObject' = IF VideoRefSet THEN r ELSE NoStream
            /\ isLoading' = FALSE
       ELSE UNCHANGED << stream, srcObject, isLoading >>
  /\ UNCHANGED << facingMode, effectStream, nextReq, mounted >>
  /\ UNCHANGED uiVars

\* getUserMedia rejects: the catch block and the finally
getUserMediaReject(r) ==
  /\ r \in pending
  /\ pending' = pending \ {r}
  /\ isLoading' = IF mounted THEN FALSE ELSE isLoading
  /\ UNCHANGED << stream, srcObject, granted, live, facingMode, effectStream,
                  nextReq, mounted >>
  /\ UNCHANGED uiVars

\* the component unmounts: the effect's cleanup runs with the stream it closed over
unmount ==
  /\ mounted
  /\ mounted' = FALSE
  /\ live' = StopTracks(live, effectStream)
  /\ srcObject' = NoStream
  /\ UNCHANGED << stream, facingMode, isLoading, effectStream, pending, granted,
                  nextReq >>
  /\ UNCHANGED uiVars

(* ---- capture ---- *)

\* the body of capturePhoto; ctx is whether canvas.getContext('2d') is non-null
capturePhoto(ctx) ==
  IF CaptureGuardFails
    THEN UNCHANGED vars
    ELSE /\ isCapturing' = TRUE
         /\ flashActive' = TRUE
         /\ flashTimer' = TRUE
         /\ IF ~ctx
              THEN UNCHANGED << photos, filmCount, capturingTimer >>
              ELSE /\ photos' = PrependPhoto(photos, NewPhoto)
                   /\ filmCount' = DecFilm(filmCount)
                   /\ capturingTimer' = TRUE
         /\ UNCHANGED << currentFilter, showGallery, selectedPhoto, now, mounted >>
         /\ UNCHANGED cameraVars

\* a press on the shutter button
shutterClick(ctx) ==
  /\ mounted
  /\ IF ShutterDisabled THEN UNCHANGED vars ELSE capturePhoto(ctx)

\* setTimeout(() => setFlashActive(false), 150) fires
flashTimeout ==
  /\ flashTimer
  /\ flashTimer' = FALSE
  /\ now' = now + FlashMs
  /\ flashActive' = IF mounted THEN FALSE ELSE flashActive
  /\ UNCHANGED << currentFilter, photos, isCapturing, showGallery, selectedPhoto,
                  filmCount, capturingTimer, mounted >>
  /\ UNCHANGED cameraVars

\* setTimeout(() => setIsCapturing(false), 300) fires, after the 150 ms one
capturingTimeout ==
  /\ capturingTimer
  /\ ~flashTimer
  /\ capturingTimer' = FALSE
  /\ now' = now + (CapturingMs - FlashMs)
  /\ isCapturing' = IF mounted THEN FALSE ELSE isCapturing
  /\ UNCHANGED << currentFilter, photos, showGallery, selectedPhoto, flashActive,
                  filmCount, flashTimer, mounted >>
  /\ UNCHANGED cameraVars

(* ---- filter dial and gallery ---- *)

\* onClick={() => setCurrentFilter(filter.name)}
selectFilter(f) ==
  /\ mounted
  /\ currentFilter' = f
  /\ UNCHANGED << photos, isCapturing, showGallery, selectedPhoto, flashActive,
                  filmCount, flashTimer, capturingTimer, now, mounted >>
  /\ UNCHANGED cameraVars

\* the gallery button (disabled while the gallery is empty) and the modal's close
setShowGallery(b) ==
  /\ mounted
  /\ IF b THEN Len(photos) > 0 /\ ~showGallery ELSE showGallery
  /\ showGallery' = b
  /\ UNCHANGED << currentFilter, photos, isCapturing, selectedPhoto, flashActive,
                  filmCount, flashTimer, capturingTimer, now, mounted >>
  /\ UNCHANGED cameraVars

\* a click on gallery item i, or on the detail modal's backdrop (i = 0)
setSelectedPhoto(i) ==
  /\ mounted
  /\ IF i = 0
       THEN selectedPhoto # {} /\ selectedPhoto' = {}
       ELSE showGallery /\ i \in 1..Len(photos) /\ selectedPhoto' = {photos[i]}
  /\ UNCHANGED << currentFilter, photos, isCapturing, showGallery, flashActive,
                  filmCount, flashTimer, capturingTimer, now, mounted >>
  /\ UNCHANGED cameraVars

\* the body of deletePhoto
deletePhoto(photoId) ==
  /\ photos' = RemovePhoto(photos, photoId)
  /\ selectedPhoto' = {}
  /\ filmCount' = RestoreFilm(filmCount)
  /\ UNCHANGED << currentFilter, isCapturing, showGallery, flashActive,
                  flashTimer, capturingTimer, now, mounted >>
  /\ UNCHANGED cameraVars

\* the detail modal's Delete button
deleteClick ==
  /\ mounted
  /\ \E p \in selectedPhoto : deletePhoto(p.id)

(* ---- specifications ---- *)

Next ==
  \/ nextReq < MaxRequests /\ switchCamera
  \/ \E r \in 1..MaxRequests : getUserMediaResolve(r)
  \/ \E r \in 1..MaxRequests : getUserMediaReject(r)
  \/ unmount
  \/ PhotosTaken < MaxShots /\ \E ctx \in BOOLEAN : shutterClick(ctx)
  \/ flashTimeout
  \/ capturingTimeout
  \/ PhotosTaken < MaxDialShots /\ \E f \in FilterNames : selectFilter(f)
  \/ Deleted < MaxDeletes /\ \E b \in BOOLEAN : setShowGallery(b)
  \/ Deleted < MaxDeletes /\ \E i \in 0..MaxShots : setSelectedPhoto(i)
  \/ Deleted < MaxDeletes /\ deleteClick

Spec == Init /\ [][Next]_vars

\* runs that can use up the whole roll: no bound on shutter presses, the
\* component stays mounted, the camera is switched, the dial is turned and
\* acquisitions settle only before the first RollSetupShots exposures (one that
\* has not settled by then stays in flight), the canvas always returns a 2D
\* context, and the gallery stays closed
NextRoll ==
  \/ nextReq < RollRequests /\ PhotosTaken < RollSetupShots /\ switchCamera
  \/ PhotosTaken < RollSetupShots /\ \E r \in 1..RollRequests : getUserMediaResolve(r)
  \/ PhotosTaken < RollSetupShots /\ \E r \in 1..RollRequests : getUserMediaReject(r)
  \/ shutterClick(TRUE)
  \/ flashTimeout
  \/ capturingTimeout
  \/ PhotosTaken < RollSetupShots /\ \E f \in FilterNames : selectFilter(f)

SpecRoll == Init /\ [][NextRoll]_vars

\* runs that can use up the whole roll and give exposures back: no bound on
\* shutter presses, the component stays mounted, the camera and the dial are
\* left alone, and photos are deleted at any point of the roll
NextFilm ==
  \/ getUserMediaResolve(1)
  \/ getUserMediaReject(1)
  \/ \E ctx \in BOOLEAN : shutterClick(ctx)
  \/ flashTimeout
  \/ capturingTimeout
  \/ Deleted < FilmDeletes /\ \E b \in BOOLEAN : setShowGallery(b)
  \/ Deleted < FilmDeletes /\ \E i \in 0..FilmItems : setSelectedPhoto(i)
  \/ Deleted < FilmDeletes /\ deleteClick

SpecFilm == Init /\ [][NextFilm]_vars


(* ---- properties ---- *)

\* C1: with no exposures left (filmCount = 0) an invocation of capturePhoto is
\* a no-op: the gallery and filmCount are unchanged, whatever the filter, the
\* facing direction or the state of the source.
C1_NoCaptureWithoutFilm ==
  [][ (filmCount = 0 /\ \E ctx \in BOOLEAN : capturePhoto(ctx))
        => UNCHANGED << photos, filmCount >> ]_vars

\* the roll is used up and nothing but the film count keeps the shutter shut,
\* with the front camera and a filter other than the initial one
C1_Witness ==
  /\ filmCount = 0 /\ Len(photos) = InitialFilm
  /\ mounted /\ ~isCapturing /\ ~isLoading
  /\ facingMode = "user" /\ currentFilter = "noir"

\* C2: once every acquisition in flight has settled, the stream the component
\* holds is the one granted to the most recently issued getUserMedia call,
\* never one granted to an earlier call.
C2_LatestGrantWins ==
  (mounted /\ pending = {} /\ nextReq \in granted) => stream = nextReq

\* C3: at most one granted stream is live (granted and not stopped) at any time.
C3_AtMostOneLive == Cardinality(live) <= 1

\* C4: after the component has unmounted and the acquisitions in flight have
\* settled, no granted stream is still live.
C4_UnmountReleases == (~mounted /\ pending = {}) => live = {}

\* C5: while the component holds no live stream (none acquired yet, the last
\* acquisition failed, or one is in flight) an invocation of capturePhoto adds
\* no photo and does not decrement filmCount.
C5_NoCaptureWithoutSource ==
  [][ (stream \notin live /\ \E ctx \in BOOLEAN : capturePhoto(ctx))
        => UNCHANGED << photos, filmCount >> ]_vars

\* C6: when getUserMedia rejects, the component holds no stream afterwards (not
\* even the previous, already stopped one) and isLoading is false.
C6_FailureLeavesNoSource ==
  [][ \A r \in 1..MaxRequests :
        (mounted /\ getUserMediaReject(r)) => (stream' = NoStream /\ ~isLoading') ]_vars

\* C7: a capture that passes its guards (the shutter is enabled, the refs are
\* set, film is left and a 2D context is returned) adds exactly one photo to
\* the front of the gallery and decrements filmCount by exactly 1.
C7_CaptureAddsOneTakesOne ==
  [][ (~ShutterDisabled /\ ~CaptureGuardFails /\ shutterClick(TRUE))
        => /\ Len(photos') = Len(photos) + 1
           /\ SubSeq(photos', 2, Len(photos')) = photos
           /\ filmCount' = filmCount - 1 ]_vars

\* fresh session, one capture: one photo in the gallery and 23 exposures left
C7_Witness == Len(photos) = 1 /\ filmCount = 23 /\ PhotosTaken = 1

\* C8: a capture stores, as the new photo's filter, the filter that is selected
\* when the shutter is pressed, for every filter of the catalog and also when
\* the dial was turned just before the press.
C8_PhotoKeepsSelectedFilter ==
  [][ (Len(photos') > Len(photos) /\ \E ctx \in BOOLEAN : shutterClick(ctx))
        => /\ currentFilter \in FilterNames
           /\ photos'[1].filter = currentFilter ]_vars

\* the dial was turned from the initial filter to faded and the next press of
\* the shutter stored a photo taken with faded
C8_Witness ==
  /\ Len(photos) >= 1
  /\ photos[Len(photos)].filter = "faded"
  /\ photos[Len(photos)].dataUrl.css = "contrast(0.9) saturate(0.8) brightness(1.1)"

\* C9: deleting the selected photo removes it from the gallery and restores one
\* exposure, capped at 24: filmCount' = min(filmCount + 1, 24).
C9_DeleteRestoresOne ==
  [][ \A p \in selectedPhoto :
        (mounted /\ deletePhoto(p.id))
          => /\ filmCount' = (IF filmCount + 1 < 24 THEN filmCount + 1 ELSE 24)
             /\ Len(photos') = Len(photos) - 1
             /\ \A i \in 1..Len(photos') : photos'[i] # p ]_vars

\* three captures and one deletion: two photos left and 22 exposures
C9_Witness == filmCount = 22 /\ PhotosTaken = 3 /\ Deleted = 1 /\ Len(photos) = 2

\* C10: the exposures counter always satisfies 0 <= filmCount <= 24.
C10_FilmCountInRange == 0 <= filmCount /\ filmCount <= 24

\* the roll was used up after an exposure had been given back by a deletion
C10_Witness == filmCount = 0 /\ Deleted = 1

\* C11: the gallery is always newest-first: the photos are in strictly
\* descending order of capture time, also after deletions.
C11_NewestFirst ==
  \A i \in 1..(Len(photos) - 1) : photos[i].timestamp > photos[i + 1].timestamp

\* three photos in the gallery after an earlier one was deleted
C11_Witness == Len(photos) = 3 /\ Deleted = 1

\* C12: isLoading is true whenever an acquisition is in flight, also when a
\* second getUserMedia call was issued before the first one settled.
C12_LoadingWhileInFlight == (mounted /\ pending # {}) => isLoading

\* C13: a press of the shutter while isCapturing is true is ignored: it adds no
\* photo and does not change filmCount, so one capturing window gives one photo.
C13_NoCaptureMidCapture ==
  [][ (isCapturing /\ \E ctx \in BOOLEAN : shutterClick(ctx))
        => UNCHANGED << photos, filmCount >> ]_vars

\* mid-capture with film left and the camera loaded: only isCapturing keeps the
\* shutter shut
C13_Witness ==
  /\ mounted /\ isCapturing /\ capturingTimer
  /\ ~isLoading /\ filmCount = 22 /\ Len(photos) = 2

\* C14: no two photos of the gallery share an id, every id is the decimal
\* string of the clock value at capture, and ids grow in capture order.
C14_UniqueMonotonicIds ==
  /\ Cardinality({ photos[i].id : i \in 1..Len(photos) }) = Len(photos)
  /\ \A i \in 1..Len(photos) : photos[i].id = toString(photos[i].timestamp)
  /\ \A i \in 1..(Len(photos) - 1) :
       photos[i].timestamp >= photos[i + 1].timestamp + CapturingMs

\* ids of one, three and four digits side by side in the gallery
C14_Witness ==
  /\ Len(photos) >= 5
  /\ photos[Len(photos)].id = << "0" >>
  /\ photos[Len(photos) - 1].id = << "3", "0", "0" >>
  /\ photos[Len(photos) - 4].id = << "1", "2", "0", "0" >>

\* C15: a captured photo is drawn mirrored exactly when facingMode is 'user' at
\* the capture, which is exactly when the preview is shown mirrored.
C15_MirroredIffFront ==
  [][ (Len(photos') > Len(photos) /\ \E ctx \in BOOLEAN : shutterClick(ctx))
        => /\ photos'[1].dataUrl.mirrored = (facingMode = "user")
           /\ photos'[1].dataUrl.mirrored = PreviewMirrored ]_vars

\* a photo taken with the front camera, stored mirrored
C15_Witness ==
  /\ Len(photos) >= 1 /\ photos[1].dataUrl.mirrored
  /\ facingMode = "user" /\ PhotosTaken = 1

\* C16: a cosmetic flag that capturePhoto has set is always going to be reset:
\* while isCapturing (flashActive) is true the timeout that resets it is
\* pending, on every path through capturePhoto.
C16_FlagsHaveTimers ==
  mounted => /\ (isCapturing => capturingTimer)
             /\ (flashActive => flashTimer)

\* C17: filmCount + length(photos) = 24 in every reachable state, so the
\* gallery never holds more than 24 photos and a deletion never meets the cap.
C17_Conservation ==
  /\ filmCount + Len(photos) = 24
  /\ Len(photos) <= 24
  /\ selectedPhoto # {} => filmCount + 1 <= 24

\* exposures taken and given back: 7 taken, 1 deleted, 6 in the gallery
C17_Witness == PhotosTaken = 7 /\ Deleted = 1 /\ Len(photos) = 6 /\ filmCount = 18

\* C18: the selected photo is null or a member of the gallery, and a deletion
\* removes exactly that photo: every other photo stays as it is and in the
\* same order, and the filter, the facing direction and the source are unchanged.
C18_DeleteRemovesExactlyOne ==
  /\ [](\A p \in selectedPhoto : \E k \in 1..Len(photos) : photos[k] = p)
  /\ [][ \A p \in selectedPhoto :
           (mounted /\ deletePhoto(p.id))
             => /\ \E k \in 1..Len(photos) :
                     /\ photos[k] = p
                     /\ photos' = SubSeq(photos, 1, k - 1)
                                    \o SubSeq(photos, k + 1, Len(photos))
                /\ UNCHANGED << currentFilter, facingMode, stream, srcObject,
                                live >> ]_vars

\* an older photo was deleted from between two that are still in the gallery
C18_Witness ==
  /\ Len(photos) >= 2
  /\ photos[1].timestamp - photos[2].timestamp = 2 * CapturingMs

\* C19: whenever isLoading is false and the component holds a live stream, the
\* <video> element's srcObject is that stream.
C19_PreviewBoundToStream ==
  (mounted /\ ~isLoading /\ stream \in live) => srcObject = stream

====
